---- MODULE Spec2Model ----
(***************************************************************************)
(* Model of src/app.py: the candidate-results and basic-info parsers, and  *)
(* the two scrape loops that fetch, parse and aggregate a range of polling *)
(* stations into a dense table.                                            *)
(*                                                                         *)
(* Python strings are sequences of one-character strings, so that strip(), *)
(* int(), float(), lower() and substring tests are computed, not assumed.  *)
(* json.loads and ET.fromstring are library calls: a response body is      *)
(* given by its format and by the document the library would build from    *)
(* it.                                                                     *)
(***************************************************************************)
EXTENDS Integers, Sequences, FiniteSets, TLC

(***************************************************************************)
(* Bounds of the model.                                                    *)
(***************************************************************************)
MaxId == 3
MaxItems == 2

(***************************************************************************)
(* Python str operations.                                                  *)
(***************************************************************************)
Digits == <<"0", "1", "2", "3", "4", "5", "6", "7", "8", "9">>

IsDigit(c) == \E i \in DOMAIN Digits : Digits[i] = c

DigitVal(c) == (CHOOSE i \in DOMAIN Digits : Digits[i] = c) - 1

IsSpace(c) == c = " "

RECURSIVE lstrip(_)
lstrip(s) == IF s # <<>> /\ IsSpace(Head(s)) THEN lstrip(Tail(s)) ELSE s

RECURSIVE rstrip(_)
rstrip(s) ==
    IF s # <<>> /\ IsSpace(s[Len(s)]) THEN rstrip(SubSeq(s, 1, Len(s) - 1)) ELSE s

strip(s) == rstrip(lstrip(s))

AllDigits(s) == \A i \in DOMAIN s : IsDigit(s[i])

RECURSIVE DigitsVal(_)
DigitsVal(s) ==
    IF s = <<>> THEN 0 ELSE 10 * DigitsVal(SubSeq(s, 1, Len(s) - 1)) + DigitVal(s[Len(s)])

\* Code-point order of the characters the model uses.
CharOrder == <<" ", ".", "0", "1", "2", "3", "4", "5", "6", "7", "8", "9",
               "A", "B", "I", "T", "V", "a", "b", "c", "f", "i", "k", "n", "o", "s", "x">>

Ord(c) == CHOOSE i \in DOMAIN CharOrder : CharOrder[i] = c

RECURSIVE StrLess(_, _)
StrLess(a, b) ==
    IF b = <<>> THEN FALSE
    ELSE IF a = <<>> THEN TRUE
    ELSE IF Head(a) = Head(b) THEN StrLess(Tail(a), Tail(b))
    ELSE Ord(Head(a)) < Ord(Head(b))

\* sorted(set_of_str)
RECURSIVE sorted(_)
sorted(S) ==
    IF S = {} THEN <<>>
    ELSE LET m == CHOOSE x \in S : \A y \in S \ {x} : StrLess(x, y)
         IN  <<m>> \o sorted(S \ {m})

\* str.lower() on the letters the model uses.
LowerChar(c) ==
    CASE c = "A" -> "a"
      [] c = "B" -> "b"
      [] c = "I" -> "i"
      [] c = "T" -> "t"
      [] c = "V" -> "v"
      [] OTHER -> c

lower(s) == [i \in DOMAIN s |-> LowerChar(s[i])]

\* sub in s
Contains(s, sub) ==
    \E i \in 0..(Len(s) - Len(sub)) : SubSeq(s, i + 1, i + Len(sub)) = sub

(***************************************************************************)
(* Python values: int, float (n / 10^e, e minimal), str, None, bool,       *)
(* list and dict of a given length, and the float infinity.                *)
(***************************************************************************)
PyInt(n) == [t |-> "int", n |-> n, e |-> 0, s |-> <<>>]
PyFloat(n, e) == [t |-> "float", n |-> n, e |-> e, s |-> <<>>]
PyStr(s) == [t |-> "str", n |-> 0, e |-> 0, s |-> s]
PyNone == [t |-> "None", n |-> 0, e |-> 0, s |-> <<>>]
PyBool(b) == [t |-> "bool", n |-> IF b THEN 1 ELSE 0, e |-> 0, s |-> <<>>]
PyList(len) == [t |-> "list", n |-> len, e |-> 0, s |-> <<>>]
PyDict(len) == [t |-> "dict", n |-> len, e |-> 0, s |-> <<>>]
PyInf == [t |-> "inf", n |-> 1, e |-> 0, s |-> <<>>]

\* bool(v)
Truthy(v) ==
    CASE v.t = "str" -> v.s # <<>>
      [] v.t = "None" -> FALSE
      [] OTHER -> v.n # 0

\* a or b
Or(a, b) == IF Truthy(a) THEN a ELSE b

RECURSIVE Pow10(_)
Pow10(e) == IF e = 0 THEN 1 ELSE 10 * Pow10(e - 1)

RECURSIVE NormFloat(_, _)
NormFloat(n, e) ==
    IF e > 0 /\ n % 10 = 0 THEN NormFloat(n \div 10, e - 1) ELSE PyFloat(n, e)

\* int(v): [exc, n]
IntOf(v) ==
    CASE v.t = "int" -> [exc |-> "none", n |-> v.n]
      [] v.t = "bool" -> [exc |-> "none", n |-> v.n]
      [] v.t = "float" -> [exc |-> "none", n |-> v.n \div Pow10(v.e)]
      [] v.t = "inf" -> [exc |-> "OverflowError", n |-> 0]
      [] v.t = "str" ->
            LET x == strip(v.s)
            IN  IF x # <<>> /\ AllDigits(x)
                THEN [exc |-> "none", n |-> DigitsVal(x)]
                ELSE [exc |-> "ValueError", n |-> 0]
      [] OTHER -> [exc |-> "TypeError", n |-> 0]

\* float(text) for a str: [exc, v]
FloatOfText(s) ==
    LET x == strip(s)
        dots == {i \in DOMAIN x : x[i] = "."}
        ip == IF dots = {} THEN x
              ELSE SubSeq(x, 1, (CHOOSE i \in dots : \A j \in dots : i <= j) - 1)
        fp == IF dots = {} THEN <<>>
              ELSE SubSeq(x, (CHOOSE i \in dots : \A j \in dots : i <= j) + 1, Len(x))
    IN  IF AllDigits(ip) /\ AllDigits(fp) /\ Len(ip) + Len(fp) > 0
        THEN [exc |-> "none", v |-> NormFloat(DigitsVal(ip \o fp), Len(fp))]
        ELSE [exc |-> "ValueError", v |-> PyNone]

\* float(v): [exc, v]
FloatOf(v) ==
    CASE v.t = "str" -> FloatOfText(v.s)
      [] v.t = "int" -> [exc |-> "none", v |-> PyFloat(v.n, 0)]
      [] v.t = "bool" -> [exc |-> "none", v |-> PyFloat(v.n, 0)]
      [] v.t = "float" -> [exc |-> "none", v |-> v]
      [] v.t = "inf" -> [exc |-> "none", v |-> v]
      [] OTHER -> [exc |-> "TypeError", v |-> PyNone]

(***************************************************************************)
(* Response bodies.  fmt tells what the text is: "empty", "blank"          *)
(* (whitespace only), "garbage" (starts with neither a bracket nor a tag), *)
(* "badjson" and "json" (start with [ or {), "badxml" and "xml".  json is  *)
(* the value json.loads returns for it, xml the tree ET.fromstring builds. *)
(***************************************************************************)
NoItems == <<>>

NoFields == [k \in {} |-> PyNone]

WAbsent == [k |-> "absent", n |-> 0, items |-> NoItems]

NoJson == [top |-> "none", items |-> NoItems, results |-> WAbsent,
           Candidates |-> WAbsent, f |-> NoFields]

NoText == [none |-> TRUE, s |-> <<>>]

Text(s) == [none |-> FALSE, s |-> s]

NoXml == [ns |-> "", local |-> "", text |-> NoText, kids |-> <<>>]

Body(fmt, json, xml) == [fmt |-> fmt, json |-> json, xml |-> xml]

EmptyBody == Body("empty", NoJson, NoXml)

\* not text
IsEmptyText(body) == body.fmt = "empty"

\* not text.strip()
IsBlankText(body) == body.fmt \in {"empty", "blank"}

\* s[0] in ("[", "{")
StartsJson(body) == body.fmt \in {"json", "badjson"}

\* json.loads(s): [exc, data]
JsonLoads(body) ==
    IF body.fmt = "json" THEN [exc |-> "none", data |-> body.json]
    ELSE [exc |-> "JSONDecodeError", data |-> NoJson]

\* ET.fromstring(s): [exc, root]
EtFromstring(body) ==
    IF body.fmt = "xml" THEN [exc |-> "none", root |-> body.xml]
    ELSE [exc |-> "ParseError", root |-> NoXml]

(***************************************************************************)
(* parse_json_candidates                                                   *)
(***************************************************************************)
\* item.get(key)
Get(item, key) == IF key \in DOMAIN item.f THEN item.f[key] ELSE PyNone

\* One pass of the body of "for item in iterable" (lines 40-51):
\* [exc, skip, cand].
JsonItem(item) ==
    LET name == Or(Get(item, "name"), Get(item, "Name"))
        votes == Or(Or(Get(item, "totalVotes"), Get(item, "TotalVotes")), PyInt(0))
        iv == IntOf(votes)
        v == IF iv.exc \in {"ValueError", "TypeError"} THEN 0 ELSE iv.n
    IN  IF ~item.isdict THEN [exc |-> "none", skip |-> TRUE, cand |-> <<>>]
        ELSE IF ~Truthy(name) THEN [exc |-> "none", skip |-> TRUE, cand |-> <<>>]
        ELSE IF iv.exc = "OverflowError"
             THEN [exc |-> "OverflowError", skip |-> TRUE, cand |-> <<>>]
        ELSE IF name.t # "str"
             THEN [exc |-> "AttributeError", skip |-> TRUE, cand |-> <<>>]
        ELSE [exc |-> "none", skip |-> FALSE,
              cand |-> <<[name |-> strip(name.s), votes |-> v]>>]

RECURSIVE JsonLoop(_, _)
JsonLoop(items, acc) ==
    IF items = <<>> THEN [exc |-> "none", cands |-> acc]
    ELSE LET r == JsonItem(Head(items))
         IN  IF r.exc # "none" THEN [exc |-> r.exc, cands |-> <<>>]
             ELSE JsonLoop(Tail(items), acc \o r.cand)

\* bool(data.get(key)) for a wrapper value
WTruthy(w) == w.k # "absent" /\ w.n # 0

NonDictItem == [isdict |-> FALSE, f |-> NoFields]

\* iter(w): a list gives its items, a str its characters, a dict its keys,
\* a number raises TypeError.
WIter(w) ==
    CASE w.k = "list" -> [exc |-> "none", items |-> w.items]
      [] w.k \in {"str", "dict"} ->
            [exc |-> "none", items |-> [i \in 1..w.n |-> NonDictItem]]
      [] OTHER -> [exc |-> "TypeError", items |-> NoItems]

\* data.get("results") or data.get("Candidates") or [data]
Iterable(data) ==
    IF data.top = "list" THEN [exc |-> "none", items |-> data.items]
    ELSE IF WTruthy(data.results) THEN WIter(data.results)
    ELSE IF WTruthy(data.Candidates) THEN WIter(data.Candidates)
    ELSE [exc |-> "none", items |-> <<[isdict |-> TRUE, f |-> data.f]>>]

parse_json_candidates(body) ==
    IF IsEmptyText(body) \/ IsBlankText(body) THEN [exc |-> "none", cands |-> <<>>]
    ELSE IF ~StartsJson(body) \/ JsonLoads(body).exc # "none"
         THEN [exc |-> "none", cands |-> <<>>]
    ELSE LET it == Iterable(JsonLoads(body).data)
         IN  IF it.exc # "none" THEN [exc |-> it.exc, cands |-> <<>>]
             ELSE JsonLoop(it.items, <<>>)

(***************************************************************************)
(* parse_xml_candidates                                                    *)
(***************************************************************************)
ItemTag == "Race5_PollingStationsCandidatesResult"

\* root.findall(tag, ns) / elem.find(tag, ns): the children whose tag is the
\* local name qualified by the root's namespace (unqualified when the root
\* has none).
Matching(elem, ns, local) ==
    SelectSeq(elem.kids, LAMBDA c : c.ns = ns /\ c.local = local)

\* int(text) if elem is not None and elem.text else 0, ValueError -> 0
VotesOfText(text) ==
    IF text.none \/ text.s = <<>> THEN 0
    ELSE LET iv == IntOf(PyStr(text.s)) IN IF iv.exc = "none" THEN iv.n ELSE 0

\* Lines 88-101 for one matched element: zero or one candidate.
NsItem(elem, ns) ==
    LET names == Matching(elem, ns, "Name")
        votes == Matching(elem, ns, "TotalVotes")
    IN  IF names = <<>> \/ names[1].text.none THEN <<>>
        ELSE <<[name |-> strip(names[1].text.s),
                votes |-> IF votes = <<>> THEN 0 ELSE VotesOfText(votes[1].text)]>>

RECURSIVE NsPass(_, _)
NsPass(elems, ns) ==
    IF elems = <<>> THEN <<>>
    ELSE NsItem(Head(elems), ns) \o NsPass(Tail(elems), ns)

\* Lines 110-122: the last Name and the last TotalVotes child win.
RECURSIVE ChildLoop(_, _, _)
ChildLoop(kids, name_text, votes_val) ==
    IF kids = <<>> THEN [name_text |-> name_text, votes_val |-> votes_val]
    ELSE LET child == Head(kids)
         IN  IF child.local = "Name"
             THEN ChildLoop(Tail(kids),
                            Text(strip(IF child.text.none THEN <<>> ELSE child.text.s)),
                            votes_val)
             ELSE IF child.local = "TotalVotes"
             THEN ChildLoop(Tail(kids), name_text, VotesOfText(child.text))
             ELSE ChildLoop(Tail(kids), name_text, votes_val)

\* Lines 105-125 for one child of the root.
LocalItem(elem) ==
    LET r == ChildLoop(elem.kids, NoText, 0)
    IN  IF elem.local # ItemTag THEN <<>>
        ELSE IF r.name_text.none \/ r.name_text.s = <<>> THEN <<>>
        ELSE <<[name |-> r.name_text.s, votes |-> r.votes_val]>>

RECURSIVE LocalPass(_)
LocalPass(elems) ==
    IF elems = <<>> THEN <<>> ELSE LocalItem(Head(elems)) \o LocalPass(Tail(elems))

parse_xml_candidates(body) ==
    IF IsEmptyText(body) \/ IsBlankText(body) THEN <<>>
    ELSE IF EtFromstring(body).exc # "none" THEN <<>>
    ELSE LET root == EtFromstring(body).root
             first == NsPass(Matching(root, root.ns, ItemTag), root.ns)
         IN  IF first # <<>> THEN first ELSE LocalPass(root.kids)

\* parse_candidates: [exc, cands]
parse_candidates(body) ==
    LET j == parse_json_candidates(body)
    IN  IF j.exc # "none" THEN j
        ELSE IF j.cands # <<>> THEN j
        ELSE [exc |-> "none", cands |-> parse_xml_candidates(body)]

(***************************************************************************)
(* parse_basicinfo.  A basic-info JSON value is a list (list0 tells what   *)
(* data[0] is) or a dict; f holds the entries of the dict (of data[0] for  *)
(* a list), and inner the entries of the dict stored under a wrapper key.  *)
(* Field names are Python strings.                                         *)
(***************************************************************************)
NoInfoJson == [top |-> "none", list0 |-> "empty", f |-> NoFields, inner |-> NoFields]

NoInfoXml == [ns |-> "", kids |-> <<>>]

K_basicinfo == <<"b", "a", "s", "i", "c", "i", "n", "f", "o">>

K_race5_basicinfo ==
    <<"r", "a", "c", "e", "5", "_", "p", "o", "l", "l", "i", "n", "g", "s", "t", "a",
      "t", "i", "o", "n", "s">> \o K_basicinfo

\* Lines 239-244: the key whose lower-case form contains "basicinfo".
LooksLikeBasicInfo(k) ==
    Contains(lower(k), K_basicinfo) \/ Contains(lower(k), K_race5_basicinfo)

\* dict[k] = v
Put(f, k, v) == [x \in DOMAIN f \cup {k} |-> IF x = k THEN v ELSE f[x]]

\* Lines 233-248: [isdict, f], the object whose keys become the fields.
Unwrap(data) ==
    IF data.top = "list"
    THEN IF data.list0 = "dict" THEN [isdict |-> TRUE, f |-> data.f]
         ELSE [isdict |-> FALSE, f |-> NoFields]
    ELSE LET cks == {k \in DOMAIN data.f : LooksLikeBasicInfo(k)}
         IN  IF cks # {} /\ data.f[CHOOSE k \in cks : TRUE].t = "dict"
             THEN [isdict |-> TRUE, f |-> data.inner]
             ELSE [isdict |-> TRUE, f |-> data.f]

\* Lines 254-265: the value stored for a JSON value v.
CoerceJson(v) ==
    IF v.t \in {"int", "float", "bool", "inf"} THEN v
    ELSE LET fv == FloatOf(v)
         IN  IF fv.exc # "none" THEN v
             ELSE IF fv.v.e = 0 THEN PyInt(fv.v.n)
             ELSE fv.v

\* Lines 277-288: the value stored for an element's text.
CoerceXml(text) ==
    LET x == strip(IF text.none THEN <<>> ELSE text.s)
        fv == FloatOfText(x)
    IN  IF x = <<>> THEN PyInt(0)
        ELSE IF fv.exc # "none" THEN PyStr(x)
        ELSE IF fv.v.e = 0 THEN PyInt(fv.v.n)
        ELSE fv.v

\* Lines 275-288: later children overwrite earlier ones of the same tag.
RECURSIVE XmlFields(_, _)
XmlFields(kids, result) ==
    IF kids = <<>> THEN result
    ELSE XmlFields(Tail(kids), Put(result, Head(kids).local, CoerceXml(Head(kids).text)))

\* parse_basicinfo: the record, a function from field names to values.
parse_basicinfo(body) ==
    LET jl == JsonLoads(body)
        isjson == StartsJson(body) /\ jl.exc = "none"
        obj == IF isjson THEN Unwrap(jl.data) ELSE [isdict |-> FALSE, f |-> NoFields]
        et == EtFromstring(body)
    IN  IF IsEmptyText(body) \/ IsBlankText(body) THEN NoFields
        ELSE IF obj.isdict THEN [k \in DOMAIN obj.f |-> CoerceJson(obj.f[k])]
        ELSE IF et.exc # "none" THEN NoFields
        ELSE XmlFields(et.root.kids, NoFields)

(***************************************************************************)
(* Aggregation: the record stored for a station and the table built at the *)
(* end of scrape_candidate_results / scrape_basicinfo.                     *)
(***************************************************************************)
\* station_result = {} (lines 162, 314)
EmptyRecord == NoFields

\* Lines 182-185: station_result[name] = votes, in order (last write wins).
RECURSIVE CandidateRecord(_, _)
CandidateRecord(cands, result) ==
    IF cands = <<>> THEN result
    ELSE CandidateRecord(Tail(cands),
                         Put(result, Head(cands).name, PyInt(Head(cands).votes)))

\* The field set overwritten by the names of the last record instead of grown.
AddFieldsOverwrite(all, station_result) == DOMAIN station_result

\* Lines 185, 335-336: all_candidates.add(name) for every name of the record.
AddFields(all, station_result) == all \cup DOMAIN station_result

\* Only the 4xx and 5xx statuses taken as failures.
IsFailureOnlyErrors(status) == status >= 400

\* resp.status_code != 200 (lines 174, 326)
IsFailure(status) == status # 200

\* raw_response as the progress event reports it (lines 163-167, 315-319):
\* "" when the GET raised, resp.text otherwise.
RawResponse(kind, body) == IF kind = "exception" THEN EmptyBody ELSE body

\* sorted(results_by_station.keys())
RECURSIVE SortedIds(_)
SortedIds(S) ==
    IF S = {} THEN <<>>
    ELSE LET m == CHOOSE x \in S : \A y \in S : x <= y
         IN  <<m>> \o SortedIds(S \ {m})

\* station_result.get(cand, 0)
Cell(station_result, field) ==
    IF field \in DOMAIN station_result THEN station_result[field] ELSE PyInt(0)

\* row = [station_result.get(cand, 0) for cand in all_candidates]
Row(station_result, columns) ==
    [j \in DOMAIN columns |-> Cell(station_result, columns[j])]

\* The table with the stations of an empty record left out.
BuildTableDropEmpty(all, results) ==
    LET columns == sorted(all)
        index == SortedIds({i \in DOMAIN results : results[i] # EmptyRecord})
    IN  [index |-> index,
         columns |-> columns,
         data |-> [i \in DOMAIN index |-> Row(results[index[i]], columns)]]

\* Lines 192-203, 343-354: the DataFrame.
BuildTable(all, results) ==
    LET columns == sorted(all)
        index == SortedIds(DOMAIN results)
    IN  [index |-> index,
         columns |-> columns,
         data |-> [i \in DOMAIN index |-> Row(results[index[i]], columns)]]

NoTable == [index |-> <<>>, columns |-> <<>>, data |-> <<>>]

(***************************************************************************)
(* Inputs: the response bodies the parsers are applied to.                 *)
(***************************************************************************)
SeqsUpTo(S, n) == UNION {[1..k -> S] : k \in 0..n}

Absent == [t |-> "absent", n |-> 0, e |-> 0, s |-> <<>>]

ItemKeys == {"name", "Name", "totalVotes", "TotalVotes"}

\* A JSON object with the given values under the four keys (Absent: no key).
MkItem(nv, Nv, tv, Tv) ==
    LET val == [k \in ItemKeys |->
                   CASE k = "name" -> nv
                     [] k = "Name" -> Nv
                     [] k = "totalVotes" -> tv
                     [] OTHER -> Tv]
    IN  [isdict |-> TRUE, f |-> [k \in {x \in ItemKeys : val[x].t # "absent"} |-> val[k]]]

NameVals == {Absent, PyStr(<<"A">>), PyStr(<<" ", "B", " ">>), PyStr(<<" ">>), PyInt(5)}

VoteVals == {Absent, PyInt(3), PyStr(<<"x">>), PyInf}

JsonItems ==
    {MkItem(nv, Absent, tv, Absent) : nv \in NameVals, tv \in VoteVals}
    \cup {MkItem(Absent, PyStr(<<"B">>), Absent, PyInt(4)),
          MkItem(PyStr(<<>>), PyStr(<<"B">>), PyInt(0), PyInt(4)),
          MkItem(PyStr(<<"A">>), Absent, PyFloat(25, 1), Absent),
          MkItem(PyStr(<<"A">>), Absent, PyStr(<<" ", "7", " ">>), Absent),
          MkItem(PyStr(<<"A">>), Absent, PyList(1), Absent),
          MkItem(PyStr(<<"A">>), Absent, PyNone, Absent),
          MkItem(PyStr(<<"A">>), Absent, PyBool(TRUE), Absent),
          NonDictItem}

ItemA3 == MkItem(PyStr(<<"A">>), Absent, PyInt(3), Absent)

ItemB4 == MkItem(Absent, PyStr(<<"B">>), Absent, PyInt(4))

WList(items) == [k |-> "list", n |-> Len(items), items |-> items]

WOther(k, n) == [k |-> k, n |-> n, items |-> NoItems]

Wrappers ==
    {WAbsent, WList(<<ItemA3>>), WList(<<>>), WOther("int", 5), WOther("int", 0),
     WOther("str", 2), WOther("dict", 1)}

JsonList(items) ==
    [top |-> "list", items |-> items, results |-> WAbsent, Candidates |-> WAbsent,
     f |-> NoFields]

JsonDict(results, Candidates, f) ==
    [top |-> "dict", items |-> NoItems, results |-> results, Candidates |-> Candidates,
     f |-> f]

CandJsonDocs ==
    {JsonList(items) : items \in SeqsUpTo(JsonItems, MaxItems)}
    \cup {JsonDict(r, c, f) : r \in Wrappers, c \in {WAbsent, WList(<<ItemB4>>)},
                              f \in {NoFields, ItemA3.f}}

Elem(ns, local, text, kids) == [ns |-> ns, local |-> local, text |-> text, kids |-> kids]

Leaf(local, text) == Elem("", local, text, <<>>)

NameA == Leaf("Name", Text(<<"A">>))
NameB == Leaf("Name", Text(<<"B">>))
Votes3 == Leaf("TotalVotes", Text(<<"3">>))
Votes4 == Leaf("TotalVotes", Text(<<"4">>))

\* The children of an item element.
KidSeqs ==
    {<<NameA, Votes3>>,
     <<Leaf("Name", Text(<<" ">>)), Votes3>>,
     <<Leaf("Name", NoText), Votes3>>,
     <<NameA, NameB, Votes3, Votes4>>,
     <<NameB>>,
     <<NameB, Leaf("TotalVotes", Text(<<"x">>))>>,
     <<NameB, Leaf("TotalVotes", NoText)>>,
     <<Votes3>>,
     <<Leaf("Name", Text(<<" ", "A", " ">>)), Leaf("TotalVotes", Text(<<" ", "7", " ">>))>>}

XmlElems ==
    {Elem("", ItemTag, NoText, ks) : ks \in KidSeqs} \cup {Elem("", "Other", NoText, <<NameA>>)}

\* Candidate-results documents without a namespace declaration.
PlainXmlDocs == {Elem("", "Root", NoText, ks) : ks \in SeqsUpTo(XmlElems, MaxItems)}

\* The document with a namespace declared and the chosen elements qualified
\* by it: q[local] tells whether the elements of that name are.
QualifyElem(e, q) ==
    [e EXCEPT !.ns = IF q[e.local] THEN "u" ELSE "",
              !.kids = [i \in DOMAIN e.kids |->
                           [e.kids[i] EXCEPT !.ns = IF q[e.kids[i].local] THEN "u" ELSE ""]]]

Qualify(doc, q) ==
    [doc EXCEPT !.ns = IF q["Root"] THEN "u" ELSE "",
                !.kids = [i \in DOMAIN doc.kids |-> QualifyElem(doc.kids[i], q)]]

XmlNames == {"Root", ItemTag, "Name", "TotalVotes", "Other"}

\* Other is qualified with the item elements.
Qualifications ==
    {q \in [XmlNames -> BOOLEAN] :
        /\ q["Other"] = q[ItemTag]
        /\ \E n \in XmlNames : q[n]}

JsonBody(doc) == Body("json", doc, NoXml)

XmlBody(doc) == Body("xml", NoJson, doc)

BlankBody == Body("blank", NoJson, NoXml)
GarbageBody == Body("garbage", NoJson, NoXml)
BadJsonBody == Body("badjson", NoJson, NoXml)
BadXmlBody == Body("badxml", NoJson, NoXml)

CandBodies ==
    {EmptyBody, BlankBody, GarbageBody, BadJsonBody, BadXmlBody}
    \cup {JsonBody(d) : d \in CandJsonDocs}
    \cup {XmlBody(d) : d \in PlainXmlDocs}
    \cup {XmlBody(Qualify(d, q)) : d \in PlainXmlDocs, q \in Qualifications}

K_V == <<"V">>
K_T == <<"T">>
K_BasicInfo == <<"B", "a", "s", "i", "c", "I", "n", "f", "o">>

InfoVals ==
    {PyInt(15), PyFloat(15, 0), PyFloat(65, 1), PyStr(<<"1", "5">>),
     PyStr(<<"1", "5", ".", "0">>), PyStr(<<"6", ".", "5">>), PyStr(<<"a", "b", "c">>),
     PyStr(<<>>), PyNone, PyBool(TRUE), PyList(1), PyDict(1), PyInf}

InfoObjs == UNION {[ks -> InfoVals] : ks \in SUBSET {K_V, K_T}}

SmallObjs == {NoFields, [k \in {K_V} |-> PyStr(<<"1", "5">>)]}

InfoDict(f, inner) == [top |-> "dict", list0 |-> "empty", f |-> f, inner |-> inner]

InfoList(list0, f) == [top |-> "list", list0 |-> list0, f |-> f, inner |-> NoFields]

InfoJsonDocs ==
    {InfoDict(o, NoFields) : o \in InfoObjs}
    \cup {InfoDict(Put(o, K_BasicInfo, PyDict(1)), i) : o \in SmallObjs, i \in SmallObjs}
    \cup {InfoDict(Put(o, K_BasicInfo, PyInt(5)), NoFields) : o \in SmallObjs}
    \cup {InfoList("empty", NoFields), InfoList("other", NoFields)}
    \cup {InfoList("dict", o) : o \in SmallObjs}

InfoTexts ==
    {NoText, Text(<<"1", "5">>), Text(<<"1", "5", ".", "0">>), Text(<<"6", ".", "5">>),
     Text(<<"a", "b", "c">>), Text(<<" ">>), Text(<<" ", "1", "5", " ">>)}

InfoElems == {[ns |-> "", local |-> k, text |-> t] : k \in {K_V, K_T}, t \in InfoTexts}

InfoXmlDocs ==
    {[ns |-> n, kids |-> [i \in DOMAIN ks |-> [ks[i] EXCEPT !.ns = n]]] :
        n \in {"", "u"}, ks \in SeqsUpTo(InfoElems, MaxItems)}

InfoBodies ==
    {Body(fmt, NoInfoJson, NoInfoXml) : fmt \in {"empty", "blank", "garbage", "badjson", "badxml"}}
    \cup {Body("json", d, NoInfoXml) : d \in InfoJsonDocs}
    \cup {Body("xml", NoInfoJson, d) : d \in InfoXmlDocs}

(***************************************************************************)
(* What the server can answer one GET with, in a scrape.                   *)
(***************************************************************************)
Statuses == {200, 204, 500}

ScrapeBodies(endpoint) ==
    IF endpoint = "candidates"
    THEN {EmptyBody, GarbageBody, BadXmlBody,
          JsonBody(JsonList(<<ItemA3>>)),
          JsonBody(JsonList(<<ItemA3, ItemB4>>)),
          JsonBody(JsonList(<<MkItem(PyInt(5), Absent, PyInt(3), Absent)>>)),
          XmlBody(Elem("", "Root", NoText, <<Elem("", ItemTag, NoText, <<NameB, Votes4>>)>>))}
    ELSE {Body("empty", NoInfoJson, NoInfoXml),
          Body("badjson", NoInfoJson, NoInfoXml),
          Body("json", InfoDict([k \in {K_V, K_T} |->
                                    IF k = K_V THEN PyInt(15) ELSE PyFloat(65, 1)],
                                NoFields), NoInfoXml),
          Body("json", InfoDict([k \in {K_V} |-> PyStr(<<"a", "b", "c">>)], NoFields),
               NoInfoXml),
          Body("xml", NoInfoJson,
               [ns |-> "", kids |-> <<[ns |-> "", local |-> K_T, text |-> NoText]>>])}

\* The body of a response whose status is not 200.
ErrorBodies(endpoint) ==
    IF endpoint = "candidates" THEN {EmptyBody, GarbageBody}
    ELSE {Body("empty", NoInfoJson, NoInfoXml), Body("garbage", NoInfoJson, NoInfoXml)}

\* Lines 180-185 and 332-336: [exc, rec], the record parsed from a 200 response.
ParseStation(endpoint, body) ==
    IF endpoint = "candidates"
    THEN LET r == parse_candidates(body)
         IN  [exc |-> r.exc, rec |-> CandidateRecord(r.cands, EmptyRecord)]
    ELSE [exc |-> "none", rec |-> parse_basicinfo(body)]

(***************************************************************************)
(* State.                                                                  *)
(***************************************************************************)
VARIABLES
    pc,                  \* "Idle", "Running", "Finished", "Raised", "UiError"
    caller,              \* "main" or "other"
    endpoint,            \* "candidates" or "basicinfo"
    start_id, end_id,
    sink,                \* a progress_callback was supplied
    polling_id, idx,     \* the loop variables of the scrape
    all_fields,          \* all_candidates / all_fields
    results_by_station,
    events,              \* the calls of progress_callback, in order
    gets,                \* the GETs issued, in order, with their outcome
    table,               \* the DataFrame returned
    exc,                 \* the exception that escaped the scrape
    fn, arg, arg2, ret, ret2, ppc   \* a parser applied on its own

scrapeVars == <<pc, caller, endpoint, start_id, end_id, sink, polling_id, idx,
                all_fields, results_by_station, events, gets, table, exc>>

parseVars == <<fn, arg, arg2, ret, ret2, ppc>>

vars == <<scrapeVars, parseVars>>

NoResults == [i \in {} |-> EmptyRecord]

NoRet == [exc |-> "none", cands |-> <<>>, rec |-> NoFields]

ScrapeIdle ==
    /\ pc = "Idle"
    /\ caller = "none"
    /\ endpoint = "none"
    /\ start_id = 0
    /\ end_id = 0
    /\ sink = FALSE
    /\ polling_id = 0
    /\ idx = 0
    /\ all_fields = {}
    /\ results_by_station = NoResults
    /\ events = <<>>
    /\ gets = <<>>
    /\ table = NoTable
    /\ exc = "none"

ParseIdle ==
    /\ fn = "none"
    /\ arg = EmptyBody
    /\ arg2 = EmptyBody
    /\ ret = NoRet
    /\ ret2 = NoRet
    /\ ppc = "off"

Init == ScrapeIdle /\ ParseIdle

Endpoints == {"candidates", "basicinfo"}

Ids == 1..MaxId

(***************************************************************************)
(* main(): lines 383-387 and 427, 450-454 and 492.                         *)
(***************************************************************************)
MainRejects(ep, s, e) ==
    /\ pc = "Idle"
    /\ s > e
    /\ pc' = "UiError"
    /\ caller' = "main"
    /\ endpoint' = ep
    /\ start_id' = s
    /\ end_id' = e
    /\ UNCHANGED <<sink, polling_id, idx, all_fields, results_by_station, events, gets,
                   table, exc, parseVars>>

\* The entry of scrape_candidates_results / scrape_basicinfo: lines 150-154.
Enter(who, ep, s, e, cb) ==
    /\ pc' = "Running"
    /\ caller' = who
    /\ endpoint' = ep
    /\ start_id' = s
    /\ end_id' = e
    /\ sink' = cb
    /\ polling_id' = s
    /\ idx' = 1
    /\ all_fields' = {}
    /\ results_by_station' = NoResults
    /\ UNCHANGED <<events, gets, table, exc, parseVars>>

MainRuns(ep, s, e) ==
    /\ pc = "Idle"
    /\ ~(s > e)
    /\ Enter("main", ep, s, e, TRUE)

\* Any other caller of the scrape function: nothing checks its arguments.
Call(ep, s, e, cb) ==
    /\ pc = "Idle"
    /\ Enter("other", ep, s, e, cb)

(***************************************************************************)
(* One iteration of the loop of lines 156-190 / 308-341.                   *)
(***************************************************************************)
Total == end_id - start_id + 1

Event(station_result, raw) ==
    [index |-> idx, total |-> Total, polling_id |-> polling_id,
     station_result |-> station_result, raw |-> raw]

Fetched(kind, status, body) ==
    [polling_id |-> polling_id, kind |-> kind, status |-> status, body |-> body]

\* results_by_station[polling_id] = station_result; the callback; the next id.
Store(station_result, raw, get) ==
    /\ results_by_station' = Put(results_by_station, polling_id, station_result)
    /\ events' = IF sink THEN Append(events, Event(station_result, raw)) ELSE events
    /\ gets' = Append(gets, get)
    /\ polling_id' = polling_id + 1
    /\ idx' = idx + 1
    /\ UNCHANGED <<pc, caller, endpoint, start_id, end_id, sink, table, exc, parseVars>>

InLoop == pc = "Running" /\ polling_id <= end_id

\* session.get raises: lines 168-172.
GetRaises ==
    /\ InLoop
    /\ all_fields' = all_fields
    /\ Store(EmptyRecord, RawResponse("exception", EmptyBody),
             Fetched("exception", 0, IF endpoint = "candidates" THEN EmptyBody
                                 ELSE Body("empty", NoInfoJson, NoInfoXml)))

\* resp.status_code != 200: lines 174-178.
GetFails(status, body) ==
    /\ InLoop
    /\ IsFailure(status)
    /\ all_fields' = all_fields
    /\ Store(EmptyRecord, RawResponse("status", body), Fetched("status", status, body))

\* A 200 response that parses: lines 180-190.
GetParsed(status, body) ==
    /\ InLoop
    /\ ~IsFailure(status)
    /\ ParseStation(endpoint, body).exc = "none"
    /\ LET station_result == ParseStation(endpoint, body).rec
       IN  /\ all_fields' = AddFields(all_fields, station_result)
           /\ Store(station_result, RawResponse("status", body), Fetched("status", status, body))

\* A 200 response on which the parser raises: nothing catches it.
ParseRaises(status, body) ==
    /\ InLoop
    /\ ~IsFailure(status)
    /\ ParseStation(endpoint, body).exc # "none"
    /\ pc' = "Raised"
    /\ exc' = ParseStation(endpoint, body).exc
    /\ gets' = Append(gets, Fetched("status", status, body))
    /\ UNCHANGED <<caller, endpoint, start_id, end_id, sink, polling_id, idx, all_fields,
                   results_by_station, events, table, parseVars>>

\* The loop is over: lines 192-206.
Return ==
    /\ pc = "Running"
    /\ ~(polling_id <= end_id)
    /\ table' = BuildTable(all_fields, results_by_station)
    /\ pc' = "Finished"
    /\ UNCHANGED <<caller, endpoint, start_id, end_id, sink, polling_id, idx, all_fields,
                   results_by_station, events, gets, exc, parseVars>>

Next ==
    \/ \E ep \in Endpoints, s \in Ids, e \in Ids : MainRejects(ep, s, e)
    \/ \E ep \in Endpoints, s \in Ids, e \in Ids : MainRuns(ep, s, e)
    \/ \E ep \in Endpoints, s \in Ids, e \in Ids, cb \in BOOLEAN : Call(ep, s, e, cb)
    \/ GetRaises
    \/ \E st \in Statuses, b \in ErrorBodies(endpoint) : GetFails(st, b)
    \/ \E st \in Statuses, b \in ScrapeBodies(endpoint) : GetParsed(st, b)
    \/ \E st \in Statuses, b \in ScrapeBodies(endpoint) : ParseRaises(st, b)
    \/ Return

Spec == Init /\ [][Next]_vars

(***************************************************************************)
(* The parsers applied on their own to every body of the input sets.       *)
(***************************************************************************)
ParseInit ==
    /\ ScrapeIdle
    /\ ppc = "call"
    /\ ret = NoRet
    /\ ret2 = NoRet
    /\ \/ fn = "parse_candidates" /\ arg \in CandBodies /\ arg2 = EmptyBody
       \/ fn = "parse_basicinfo" /\ arg \in InfoBodies /\ arg2 = EmptyBody
       \/ /\ fn = "parse_xml_candidates"
          /\ \E d \in PlainXmlDocs, q \in Qualifications :
                arg = XmlBody(d) /\ arg2 = XmlBody(Qualify(d, q))

ParseCandidates ==
    /\ ppc = "call"
    /\ fn = "parse_candidates"
    /\ ret' = [exc |-> parse_candidates(arg).exc, cands |-> parse_candidates(arg).cands,
               rec |-> NoFields]
    /\ ppc' = "return"
    /\ UNCHANGED <<fn, arg, arg2, ret2, scrapeVars>>

ParseBasicinfo ==
    /\ ppc = "call"
    /\ fn = "parse_basicinfo"
    /\ ret' = [exc |-> "none", cands |-> <<>>, rec |-> parse_basicinfo(arg)]
    /\ ppc' = "return"
    /\ UNCHANGED <<fn, arg, arg2, ret2, scrapeVars>>

\* parse_xml_candidates on a document and on the same document with a
\* namespace declared.
ParseXmlCandidates ==
    /\ ppc = "call"
    /\ fn = "parse_xml_candidates"
    /\ ret' = [exc |-> "none", cands |-> parse_xml_candidates(arg), rec |-> NoFields]
    /\ ret2' = [exc |-> "none", cands |-> parse_xml_candidates(arg2), rec |-> NoFields]
    /\ ppc' = "return"
    /\ UNCHANGED <<fn, arg, arg2, scrapeVars>>

ParseNext == ParseCandidates \/ ParseBasicinfo \/ ParseXmlCandidates

ParseSpec == ParseInit /\ [][ParseNext]_vars

(***************************************************************************)
(* Properties.                                                             *)
(***************************************************************************)
Range(f) == {f[i] : i \in DOMAIN f}

Ended == pc \in {"Finished", "Raised", "UiError"}

RecordedFields == UNION {DOMAIN results_by_station[i] : i \in DOMAIN results_by_station}

\* C1: the table a scrape of start_id <= end_id returns has exactly one row
\* for each station of the range, in ascending order, exactly one column for
\* each field name of any station's record, and in every cell the value
\* recorded for that station and field, or 0 when the station has no such
\* field; a station with an empty record is a row of zeros.
C1_DenseTable ==
    (pc = "Finished" /\ start_id <= end_id) =>
        /\ table.index = [i \in 1..Total |-> start_id + i - 1]
        /\ DOMAIN results_by_station = start_id..end_id
        /\ Range(table.columns) = RecordedFields
        /\ Len(table.columns) = Cardinality(RecordedFields)
        /\ Len(table.data) = Total
        /\ \A i \in 1..Total :
              LET rec == results_by_station[start_id + i - 1]
              IN  /\ Len(table.data[i]) = Len(table.columns)
                  /\ \A j \in DOMAIN table.columns :
                        table.data[i][j] =
                            IF table.columns[j] \in DOMAIN rec THEN rec[table.columns[j]]
                            ELSE PyInt(0)

\* A table of three rows and two columns with a station of an empty record
\* in it.
C1_Witness ==
    /\ pc = "Finished"
    /\ Len(table.index) = 3
    /\ Len(table.columns) = 2
    /\ \E i \in DOMAIN table.index :
          /\ results_by_station[table.index[i]] = EmptyRecord
          /\ \A j \in DOMAIN table.columns : table.data[i][j] = PyInt(0)
    /\ \E i \in DOMAIN table.index : \A j \in DOMAIN table.columns : table.data[i][j] # PyInt(0)

\* C2: once started, a scrape never ends with an error, whatever the
\* stations answer: it ends Finished, having fetched every station of the
\* range exactly once in ascending order.
C2_NoAbort ==
    /\ pc # "Raised"
    /\ (pc = "Finished" /\ start_id <= end_id) =>
          [i \in DOMAIN gets |-> gets[i].polling_id] = [i \in 1..Total |-> start_id + i - 1]

\* C3: parse_candidates and parse_basicinfo return a record for every input
\* text, no exception escapes; malformed JSON and malformed XML give the
\* empty record.
C3_ParserNeverRaises ==
    (ppc = "return" /\ fn \in {"parse_candidates", "parse_basicinfo"}) =>
        /\ ret.exc = "none"
        /\ arg.fmt \in {"badjson", "badxml"} => (ret.cands = <<>> /\ ret.rec = NoFields)

\* The GET of the k-th iteration failed: it raised, or its status is not 2xx.
TransportFailure(g) == g.kind = "exception" \/ g.status \notin 200..299

\* C4 as stated: after a GET that raised or returned a non-2xx status, the
\* station's record is empty, the raw text of its progress event is the
\* empty string, and no exception reaches the caller.
C4_EmptyRawOnFailure ==
    \A k \in DOMAIN gets :
        TransportFailure(gets[k]) =>
            /\ k \in DOMAIN events \/ ~sink
            /\ gets[k].polling_id \in DOMAIN results_by_station
            /\ results_by_station[gets[k].polling_id] = EmptyRecord
            /\ sink => events[k].raw.fmt = "empty"

\* C4 amended: after a GET that raised or returned a status other than 200,
\* the station's record is empty and no exception reaches the caller; the
\* raw text of its progress event is the empty string when the GET raised,
\* and the text of the response when it returned a status other than 200.
C4_FailureIsNoData ==
    \A k \in DOMAIN gets :
        (gets[k].kind = "exception" \/ gets[k].status # 200) =>
            /\ k \in DOMAIN events \/ ~sink
            /\ gets[k].polling_id \in DOMAIN results_by_station
            /\ results_by_station[gets[k].polling_id] = EmptyRecord
            /\ sink => IF gets[k].kind = "exception" THEN events[k].raw.fmt = "empty"
                       ELSE events[k].raw = gets[k].body

\* A finished scrape with a GET that raised, a 500 and a 204 whose bodies are
\* not empty, each reported with an empty record.
C4_Witness ==
    /\ pc = "Finished"
    /\ sink
    /\ \E k \in DOMAIN gets : gets[k].kind = "exception" /\ events[k].raw.fmt = "empty"
    /\ \E k \in DOMAIN gets :
          /\ gets[k].kind = "status" /\ gets[k].status = 500
          /\ events[k].raw.fmt = "garbage"
          /\ events[k].station_result = EmptyRecord
    /\ \E k \in DOMAIN gets :
          /\ gets[k].kind = "status" /\ gets[k].status = 204
          /\ events[k].raw.fmt = "garbage"
          /\ events[k].station_result = EmptyRecord

\* C5: a call of the scrape with start_id > end_id ends in an error, reported
\* before any GET: it returns no table and issues no request.  (That no
\* other call ends in an error is what C2 states.)
C5_PreconditionError ==
    (Ended /\ start_id > end_id) =>
        (pc # "Finished" /\ table = NoTable /\ gets = <<>>)

\* C6: with a progress sink, the k-th event carries index k, the total, the
\* k-th station of the range and the record stored for it, and when the
\* scrape has ended there is exactly one event for each station of the
\* range, the last with index = total.
C6_OneEventPerStation ==
    (sink /\ start_id <= end_id) =>
        /\ \A k \in DOMAIN events :
              /\ events[k].index = k
              /\ events[k].total = Total
              /\ events[k].polling_id = start_id + k - 1
              /\ events[k].polling_id \in DOMAIN results_by_station
              /\ events[k].station_result = results_by_station[events[k].polling_id]
        /\ Ended => (Len(events) = Total /\ events[Total].index = Total)

\* C7: no record parsed by parse_candidates has an empty field name, since
\* an item without a non-empty name is skipped, on the JSON path and on both
\* XML passes.
C7_NoEmptyName ==
    (ppc = "return" /\ fn = "parse_candidates" /\ ret.exc = "none") =>
        \A i \in DOMAIN ret.cands : ret.cands[i].name # <<>>

\* C8: a document with a namespace declared parses to the same entries as
\* the document without the declaration.
C8_NamespaceEquivalence ==
    (ppc = "return" /\ fn = "parse_xml_candidates") => ret.cands = ret2.cands

\* A whole-valued number, a number that is not whole, as JSON values.
WholeNumeric(v) ==
    \/ v.t = "int"
    \/ v.t = "float" /\ v.e = 0
    \/ v.t = "str" /\ FloatOfText(v.s).exc = "none" /\ FloatOfText(v.s).v.e = 0

NonWholeNumeric(v) ==
    \/ v.t = "float" /\ v.e > 0
    \/ v.t = "str" /\ FloatOfText(v.s).exc = "none" /\ FloatOfText(v.s).v.e > 0

\* The text of the last child named k.
LastText(kids, k) ==
    kids[CHOOSE i \in DOMAIN kids :
            kids[i].local = k /\ \A j \in DOMAIN kids : kids[j].local = k => j <= i].text

\* C9: on the JSON path and on the XML path of parse_basicinfo alike, a
\* whole-valued numeric source gives an integer, a numeric source that is
\* not whole a float, and blank XML text gives 0.
C9_SameCoercion ==
    (ppc = "return" /\ fn = "parse_basicinfo") =>
        /\ (arg.fmt = "json" /\ Unwrap(arg.json).isdict) =>
              \A k \in DOMAIN ret.rec :
                  LET v == Unwrap(arg.json).f[k]
                  IN  /\ WholeNumeric(v) => ret.rec[k].t = "int"
                      /\ NonWholeNumeric(v) => ret.rec[k].t = "float"
        /\ arg.fmt = "xml" =>
              \A k \in DOMAIN ret.rec :
                  LET text == LastText(arg.xml.kids, k)
                      v == PyStr(IF text.none THEN <<>> ELSE text.s)
                  IN  /\ WholeNumeric(v) => ret.rec[k].t = "int"
                      /\ NonWholeNumeric(v) => ret.rec[k].t = "float"
                      /\ strip(v.s) = <<>> => ret.rec[k] = PyInt(0)

\* C10: the global field set is, after each station, the union of the field
\* names of the records stored so far; no step removes a name from it, and a
\* station stored with an empty record leaves it as it was.
C10_FieldSet ==
    /\ [](all_fields = RecordedFields)
    /\ [][/\ all_fields \subseteq all_fields'
          /\ (pc = "Running" /\ pc' = "Running"
              /\ results_by_station'[polling_id] = EmptyRecord)
                 => all_fields' = all_fields]_vars

\* Two names collected, and then a station stored with an empty record.
C10_Witness ==
    /\ pc = "Running"
    /\ Cardinality(all_fields) = 2
    /\ polling_id = start_id + 2
    /\ results_by_station[start_id] # EmptyRecord
    /\ results_by_station[start_id + 1] = EmptyRecord

====
